---- MODULE Spec2Model ----
(***************************************************************************)
(* Metro Transit Pings: the alert-decision loop of main.py, the tracking   *)
(* store of src/state_manager.py and the time arithmetic of                *)
(* src/alert_logic.py.                                                     *)
(*                                                                         *)
(* Instants are whole seconds (Unix time).  A stored instant is the ISO    *)
(* string of the instant, modelled as the record [iso |-> t]; the state    *)
(* file holds the JSON text of the state, modelled as [json |-> state].    *)
(* A Python dict is a TLA+ record; an absent dict key is an absent field.  *)
(***************************************************************************)
EXTENDS Integers, Sequences, FiniteSets, TLC

VARIABLES
    config,              \* the loaded config.yaml (main.py:102)
    now,                 \* the wall clock, as last read
    paused,              \* .pause_state.json says paused (main.py:21-38)
    file,                \* alert_state.json on disk
    state,               \* StateManager.state of the current run (in memory)
    pc,                  \* position of main()
    runs,                \* runs started so far
    current_time,        \* main's current_time (main.py:105)
    cleanup_calls,       \* the calls of cleanup_old_entries in the current run:
                         \* for each, the keys of the records it removed
    route_idx,           \* index of the route of config['routes'] being checked
    route_departures,    \* departures of that route still to be examined
    fetched,             \* departures fetched so far in the current run
    faults,              \* failed writes of the state file so far
    all_alerts_to_send,  \* main's new-alert queue
    all_delay_updates,   \* main's delay-update queue
    errors,              \* routes whose check raised in the current run
                         \* (the "Error checking" lines of main.py:227)
    delivery,            \* what the notifier returned in the send phase of
                         \* the current run (main.py:247, 268)
    calc,                \* an AlertCalculator call: its arguments and results
    api                  \* a StateManager driven directly: its last call

vars == <<config, now, paused, file, state, pc, runs, current_time,
          cleanup_calls, route_idx, route_departures, fetched, faults,
          all_alerts_to_send, all_delay_updates, errors, delivery, calc,
          api>>

\* what main() never touches
probes == <<calc, api>>

(***************************************************************************)
(* Bounds of the model                                                     *)
(***************************************************************************)
MaxRuns == 2           \* runs of main() in one behaviour
MaxDepartures == 2     \* departures the feed returns over one run
MaxDrift == 1          \* seconds a run's clock reads may be after its start
MaxFaults == 1         \* failed writes of the state file in one behaviour
StartTime == 100000    \* the clock at the first run

\* seconds from the start of a run to the start of the next one
Gaps == {60, 7260, 7320}
\* the feed's departure times, in seconds after the run's current_time
Offsets == {59, 60, 120, 3720, 3721}

RouteIds == {"A", "B"}
TripIds == {"t1", "t2"}

SecondsPerMinute == 60
SecondsPerHour == 3600

\* config.yaml as main reads it: two routes at one stop
Configs ==
    {[walking_time_minutes |-> 1,
      advance_notice_minutes |-> 1,
      delay_threshold_minutes |-> 1,
      routes |-> <<[route_id |-> "A", stop_id |-> "S"],
                   [route_id |-> "B", stop_id |-> "S"]>>]}

(***************************************************************************)
(* Conversions                                                             *)
(***************************************************************************)
isoformat(t) == [iso |-> t]
fromisoformat(s) == s.iso
json_dump(st) == [json |-> st]
json_load(text) == text.json

None == [none |-> TRUE]
NoCall == [op |-> "none"]
\* nothing was handed to the notifier
NoDelivery == [alerts |-> "none", delays |-> <<>>]

(***************************************************************************)
(* src/alert_logic.py: AlertCalculator                                     *)
(***************************************************************************)
calculate_leave_time(cfg, departure_time) ==
    departure_time - cfg.walking_time_minutes * SecondsPerMinute

\* the advance notice is added to the leave time
calculate_alert_time_after_leave(cfg, departure_time) ==
    calculate_leave_time(cfg, departure_time)
        + cfg.advance_notice_minutes * SecondsPerMinute

calculate_alert_time(cfg, departure_time) ==
    calculate_leave_time(cfg, departure_time)
        - cfg.advance_notice_minutes * SecondsPerMinute

\* the window without its last instant
should_alert_now_before_leave(cfg, departure_time, t) ==
    /\ calculate_alert_time(cfg, departure_time) <= t
    /\ t < calculate_leave_time(cfg, departure_time)

should_alert_now(cfg, departure_time, t) ==
    /\ calculate_alert_time(cfg, departure_time) <= t
    /\ t <= calculate_leave_time(cfg, departure_time)

max_wait_minutes == 60

\* only the far end of the window is tested
is_departure_relevant_no_floor(cfg, departure_time, t) ==
    calculate_alert_time(cfg, departure_time) - t
        <= max_wait_minutes * SecondsPerMinute

\* only an alert time that is still to come counts
is_departure_relevant_future_only(cfg, departure_time, t) ==
    LET seconds_until_alert == calculate_alert_time(cfg, departure_time) - t
    IN  /\ 0 <= seconds_until_alert
        /\ seconds_until_alert <= max_wait_minutes * SecondsPerMinute

\* time_until_alert is (alert_time - current_time) seconds / 60; the two
\* comparisons are made on the seconds, multiplied out
is_departure_relevant(cfg, departure_time, t) ==
    LET seconds_until_alert == calculate_alert_time(cfg, departure_time) - t
    IN  /\ -(cfg.advance_notice_minutes * SecondsPerMinute) <= seconds_until_alert
        /\ seconds_until_alert <= max_wait_minutes * SecondsPerMinute

\* an exact half goes up
round_minutes_half_up(seconds) ==
    (2 * seconds + SecondsPerMinute) \div (2 * SecondsPerMinute)

\* Python's round(): to the nearest integer, an exact half to the even one
round_minutes(seconds) ==
    LET q == seconds \div SecondsPerMinute
        r == seconds % SecondsPerMinute
    IN  IF 2 * r < SecondsPerMinute THEN q
        ELSE IF 2 * r > SecondsPerMinute THEN q + 1
        ELSE IF q % 2 = 0 THEN q ELSE q + 1

calculate_delay(original_departure_time, current_departure_time) ==
    round_minutes(current_departure_time - original_departure_time)

(***************************************************************************)
(* src/state_manager.py: StateManager                                      *)
(***************************************************************************)
new_state == [last_run |-> None, tracked_departures |-> <<>>]

create_departure_key(route_id, trip_id, stop_id) ==
    route_id \o "_" \o trip_id \o "_" \o stop_id

\* dict.get(name, default)
get(dep, name, default) == IF name \in DOMAIN dep THEN dep[name] ELSE default

\* only the record added last is compared with the key
first_index_newest_only(st, key) ==
    IF /\ st.tracked_departures # <<>>
       /\ get(st.tracked_departures[Len(st.tracked_departures)], "key", None)
              = key
    THEN Len(st.tracked_departures)
    ELSE 0

\* index of the first tracked departure with this key, 0 when there is none
first_index(st, key) ==
    LET matching == {i \in 1..Len(st.tracked_departures) :
                        get(st.tracked_departures[i], "key", None) = key}
    IN  IF matching = {} THEN 0
        ELSE CHOOSE i \in matching : \A j \in matching : i <= j

\* the key is built with route and trip the wrong way round
has_alerted_swapped(st, route_id, trip_id, stop_id) ==
    LET key == create_departure_key(trip_id, route_id, stop_id)
    IN  \E i \in 1..Len(st.tracked_departures) :
            /\ get(st.tracked_departures[i], "key", None) = key
            /\ get(st.tracked_departures[i], "initial_alert_sent", FALSE)

has_alerted(st, route_id, trip_id, stop_id) ==
    LET key == create_departure_key(route_id, trip_id, stop_id)
    IN  \E i \in 1..Len(st.tracked_departures) :
            /\ get(st.tracked_departures[i], "key", None) = key
            /\ get(st.tracked_departures[i], "initial_alert_sent", FALSE)

\* the flag is read under another name, and is never found
has_sent_delay_update_wrong_field(st, route_id, trip_id, stop_id) ==
    LET i == first_index(st, create_departure_key(route_id, trip_id, stop_id))
    IN  IF i = 0 THEN FALSE
        ELSE get(st.tracked_departures[i], "delay_sent", FALSE)

has_sent_delay_update(st, route_id, trip_id, stop_id) ==
    LET i == first_index(st, create_departure_key(route_id, trip_id, stop_id))
    IN  IF i = 0 THEN FALSE
        ELSE get(st.tracked_departures[i], "delay_update_sent", FALSE)

\* get_tracked_departure: <<dep>> when found, <<>> for Python's None
get_tracked_departure(st, route_id, trip_id, stop_id) ==
    LET i == first_index(st, create_departure_key(route_id, trip_id, stop_id))
    IN  IF i = 0 THEN <<>> ELSE <<st.tracked_departures[i]>>

\* dep with dep[name] = value for every name of updates (a dict update)
with_fields(dep, updates) ==
    [name \in DOMAIN dep \cup DOMAIN updates |->
        IF name \in DOMAIN updates THEN updates[name] ELSE dep[name]]

update_last_run(st, run_time) ==
    [st EXCEPT !.last_run = isoformat(run_time)]

\* the new entry is written with delay_update_sent set
record_alert_delay_flag_set(st, route_id, trip_id, stop_id, departure_time, alert_time) ==
    LET key == create_departure_key(route_id, trip_id, stop_id)
    IN  [st EXCEPT !.tracked_departures = Append(@,
            [key |-> key,
             route_id |-> route_id,
             trip_id |-> trip_id,
             stop_id |-> stop_id,
             original_departure_time |-> isoformat(departure_time),
             current_departure_time |-> isoformat(departure_time),
             initial_alert_sent |-> TRUE,
             initial_alert_time |-> isoformat(alert_time),
             delay_update_sent |-> TRUE])]

\* a new entry is appended whether or not the key is tracked
record_alert_append(st, route_id, trip_id, stop_id, departure_time, alert_time) ==
    LET key == create_departure_key(route_id, trip_id, stop_id)
    IN  [st EXCEPT !.tracked_departures = Append(@,
            [key |-> key,
             route_id |-> route_id,
             trip_id |-> trip_id,
             stop_id |-> stop_id,
             original_departure_time |-> isoformat(departure_time),
             current_departure_time |-> isoformat(departure_time),
             initial_alert_sent |-> TRUE,
             initial_alert_time |-> isoformat(alert_time),
             delay_update_sent |-> FALSE])]

\* an existing entry is replaced by a fresh one
record_alert_replace(st, route_id, trip_id, stop_id, departure_time, alert_time) ==
    LET key == create_departure_key(route_id, trip_id, stop_id)
        i == first_index(st, key)
        fresh == [key |-> key,
                  route_id |-> route_id,
                  trip_id |-> trip_id,
                  stop_id |-> stop_id,
                  original_departure_time |-> isoformat(departure_time),
                  current_departure_time |-> isoformat(departure_time),
                  initial_alert_sent |-> TRUE,
                  initial_alert_time |-> isoformat(alert_time),
                  delay_update_sent |-> FALSE]
    IN  IF i # 0
        THEN [st EXCEPT !.tracked_departures[i] = fresh]
        ELSE [st EXCEPT !.tracked_departures = Append(@, fresh)]

record_alert(st, route_id, trip_id, stop_id, departure_time, alert_time) ==
    LET key == create_departure_key(route_id, trip_id, stop_id)
        i == first_index(st, key)
    IN  IF i # 0
        THEN [st EXCEPT !.tracked_departures[i] =
                with_fields(@,
                    [initial_alert_sent |-> TRUE,
                     initial_alert_time |-> isoformat(alert_time),
                     original_departure_time |-> isoformat(departure_time),
                     current_departure_time |-> isoformat(departure_time)])]
        ELSE [st EXCEPT !.tracked_departures = Append(@,
                [key |-> key,
                 route_id |-> route_id,
                 trip_id |-> trip_id,
                 stop_id |-> stop_id,
                 original_departure_time |-> isoformat(departure_time),
                 current_departure_time |-> isoformat(departure_time),
                 initial_alert_sent |-> TRUE,
                 initial_alert_time |-> isoformat(alert_time),
                 delay_update_sent |-> FALSE])]

\* an upsert: a key that is not tracked gets a record
record_delay_update_upsert(st, route_id, trip_id, stop_id, new_departure_time, clock) ==
    LET key == create_departure_key(route_id, trip_id, stop_id)
        i == first_index(st, key)
        updates == [delay_update_sent |-> TRUE,
                    current_departure_time |-> isoformat(new_departure_time),
                    delay_update_time |-> isoformat(clock)]
    IN  IF i = 0
        THEN [st EXCEPT !.tracked_departures =
                Append(@, with_fields([key |-> key], updates))]
        ELSE [st EXCEPT !.tracked_departures[i] = with_fields(@, updates)]

\* the baseline is moved to the new departure time as well
record_delay_update_rebaseline(st, route_id, trip_id, stop_id, new_departure_time, clock) ==
    LET i == first_index(st, create_departure_key(route_id, trip_id, stop_id))
    IN  IF i = 0 THEN st
        ELSE [st EXCEPT !.tracked_departures[i] =
                with_fields(@,
                    [delay_update_sent |-> TRUE,
                     original_departure_time |-> isoformat(new_departure_time),
                     current_departure_time |-> isoformat(new_departure_time),
                     delay_update_time |-> isoformat(clock)])]

\* for a key that is not tracked, the last entry the loop visited is written
record_delay_update_last_dep(st, route_id, trip_id, stop_id, new_departure_time, clock) ==
    LET found == first_index(st, create_departure_key(route_id, trip_id, stop_id))
        i == IF found # 0 THEN found ELSE Len(st.tracked_departures)
    IN  IF i = 0 THEN st
        ELSE [st EXCEPT !.tracked_departures[i] =
                with_fields(@,
                    [delay_update_sent |-> TRUE,
                     current_departure_time |-> isoformat(new_departure_time),
                     delay_update_time |-> isoformat(clock)])]

record_delay_update(st, route_id, trip_id, stop_id, new_departure_time, clock) ==
    LET i == first_index(st, create_departure_key(route_id, trip_id, stop_id))
    IN  IF i = 0 THEN st
        ELSE [st EXCEPT !.tracked_departures[i] =
                with_fields(@,
                    [delay_update_sent |-> TRUE,
                     current_departure_time |-> isoformat(new_departure_time),
                     delay_update_time |-> isoformat(clock)])]

\* the comparison the wrong way round
cleanup_old_entries_reversed(st, clock, max_age_hours) ==
    LET cutoff_time == clock - max_age_hours * SecondsPerHour
        keep(dep) ==
            fromisoformat(get(dep, "original_departure_time", isoformat(0)))
                < cutoff_time
    IN  [st EXCEPT !.tracked_departures = SelectSeq(@, keep)]

cleanup_old_entries(st, clock, max_age_hours) ==
    LET cutoff_time == clock - max_age_hours * SecondsPerHour
        keep(dep) ==
            fromisoformat(get(dep, "original_departure_time", isoformat(0)))
                > cutoff_time
    IN  [st EXCEPT !.tracked_departures = SelectSeq(@, keep)]

\* _load_state: the parsed file, or a new state when there is no file or it
\* cannot be read or parsed
load_state(f) ==
    IF f.exists /\ "json" \in DOMAIN f.text THEN json_load(f.text) ELSE new_state

\* _load_state catches json.JSONDecodeError and IOError only: reading a file
\* whose bytes are not valid UTF-8 raises UnicodeDecodeError, which leaves
\* _load_state and StateManager()
load_raises(f) == f.exists /\ "undecodable" \in DOMAIN f.text

\* _save_state: the outcome of open(..., 'w') and json.dump is the environment's
\*   "ok"          the file holds the JSON text of the state
\*   "unwritable"  open fails (IOError): the file is left as it was
\*   "truncated"   the write fails part-way (IOError): the file is no JSON
SaveOutcomes(failed) ==
    IF failed < MaxFaults THEN {"ok", "unwritable", "truncated"} ELSE {"ok"}

\* the file is opened for appending: a second dump follows the first, and
\* the text is no JSON
save_state_appends(f, st, outcome) ==
    CASE outcome = "ok" ->
            IF f.exists
            THEN [exists |-> TRUE, text |-> [garbage |-> TRUE]]
            ELSE [exists |-> TRUE, text |-> json_dump(st)]
      [] outcome = "unwritable" -> f
      [] outcome = "truncated" -> [exists |-> TRUE, text |-> [garbage |-> TRUE]]

save_state(f, st, outcome) ==
    CASE outcome = "ok" -> [exists |-> TRUE, text |-> json_dump(st)]
      [] outcome = "unwritable" -> f
      [] outcome = "truncated" -> [exists |-> TRUE, text |-> [garbage |-> TRUE]]

(***************************************************************************)
(* src/metro_api.py: MetroTransitAPI                                       *)
(***************************************************************************)
filter_departures_by_route(departures, route_id) ==
    LET same_route(d) == d.route_id = route_id
    IN  SelectSeq(departures, same_route)

\* parse_departure_time raises ValueError when the 'departure_time' field is
\* falsy (absent, None or 0); 0 stands for all three
has_timestamp(departure) == departure.departure_time # 0

\* datetime.fromtimestamp(timestamp, tz=utc): the instant of a Unix timestamp
parse_departure_time(departure) == departure.departure_time

(***************************************************************************)
(* main.py: the decisions of the departure loop                            *)
(***************************************************************************)
\* without the test of already_alerted
alert_needed_unguarded(should_alert, already_alerted) ==
    should_alert

\* without the test of should_alert
alert_needed_undue(should_alert, already_alerted) ==
    ~already_alerted

\* main.py:190
alert_needed(should_alert, already_alerted) ==
    should_alert /\ ~already_alerted

\* without the test of has_sent_delay_update
delay_needed_unguarded(delay_minutes, delay_threshold, delay_update_sent) ==
    delay_minutes >= delay_threshold

\* a delay equal to the threshold does not count
delay_needed_above(delay_minutes, delay_threshold, delay_update_sent) ==
    delay_minutes > delay_threshold /\ ~delay_update_sent

\* main.py:212
delay_needed(delay_minutes, delay_threshold, delay_update_sent) ==
    delay_minutes >= delay_threshold /\ ~delay_update_sent

\* the last alert of every (route_id, departure_time)
dedup_keep_last(alerts) ==
    LET last_of_pair(i) ==
            \A j \in (i + 1)..Len(alerts) :
                \/ alerts[j].route_id # alerts[i].route_id
                \/ alerts[j].departure_time # alerts[i].departure_time
        kept == {i \in 1..Len(alerts) : last_of_pair(i)}
        nth(i) == CHOOSE k \in kept : Cardinality({j \in kept : j <= k}) = i
    IN  [i \in 1..Cardinality(kept) |-> alerts[nth(i)]]

\* main.py:234-242: the first alert of every (route_id, departure_time)
dedup(alerts) ==
    LET first_of_pair(i) ==
            \A j \in 1..(i - 1) :
                \/ alerts[j].route_id # alerts[i].route_id
                \/ alerts[j].departure_time # alerts[i].departure_time
        kept == {i \in 1..Len(alerts) : first_of_pair(i)}
        \* the i-th smallest index kept
        nth(i) == CHOOSE k \in kept : Cardinality({j \in kept : j <= k}) = i
    IN  [i \in 1..Cardinality(kept) |-> alerts[nth(i)]]

(***************************************************************************)
(* The environment's inputs                                                *)
(***************************************************************************)
SeqsUpTo(S, n) == UNION {[1..k -> S] : k \in 0..n}

\* what the feed may report for a stop at current_time t: a departure of a
\* route and trip, Offsets seconds ahead, or one without a departure time
FeedDepartures(t) ==
    [route_id : RouteIds, trip_id : TripIds,
     departure_time : {t + off : off \in Offsets} \cup {0}]

(***************************************************************************)
(* main.py: main()                                                         *)
(***************************************************************************)
Init ==
    /\ config \in Configs
    /\ now = StartTime
    /\ paused \in BOOLEAN
    /\ file = [exists |-> FALSE, text |-> [garbage |-> TRUE]]
    /\ state = new_state
    /\ pc = "idle"
    /\ runs = 0
    /\ current_time = StartTime
    /\ cleanup_calls = <<>>
    /\ route_idx = 1
    /\ route_departures = <<>>
    /\ fetched = 0
    /\ faults = 0
    /\ all_alerts_to_send = <<>>
    /\ all_delay_updates = <<>>
    /\ errors = <<>>
    /\ delivery = NoDelivery
    /\ calc = NoCall
    /\ api = NoCall

keys_of(st) ==
    {get(st.tracked_departures[i], "key", None) :
        i \in 1..Len(st.tracked_departures)}

\* datetime.now() inside a run: not before the last read
ClockReads == {t \in current_time..(current_time + MaxDrift) : t >= now}

\* a call of _save_state
Save(st, outcome) ==
    /\ file' = save_state(file, st, outcome)
    /\ faults' = IF outcome = "ok" THEN faults ELSE faults + 1

\* the scheduler starts main(); main.py:105 reads the clock
StartRun ==
    /\ pc \in {"idle", "fatal"}
    /\ runs < MaxRuns
    /\ IF runs = 0
       THEN now' = now
       ELSE \E gap \in Gaps : now' = current_time + gap
    /\ current_time' = now'
    /\ runs' = runs + 1
    /\ cleanup_calls' = <<>>
    /\ fetched' = 0
    /\ errors' = <<>>
    /\ delivery' = NoDelivery
    /\ pc' = "gate"
    /\ UNCHANGED <<probes, faults, config, paused, file, state, route_idx, route_departures,
                   all_alerts_to_send, all_delay_updates>>

\* main.py:112-114: outside the active days or the active timeframe
ExitInactive ==
    /\ pc = "gate"
    /\ pc' = "idle"
    /\ UNCHANGED <<probes, errors, delivery, faults, config, now, paused, file, state, runs, current_time,
                   cleanup_calls, route_idx, route_departures, fetched,
                   all_alerts_to_send, all_delay_updates>>

\* main.py:117-120
ExitPaused ==
    /\ pc = "gate"
    /\ paused
    /\ pc' = "idle"
    /\ UNCHANGED <<probes, errors, delivery, faults, config, now, paused, file, state, runs, current_time,
                   cleanup_calls, route_idx, route_departures, fetched,
                   all_alerts_to_send, all_delay_updates>>

\* the pause flag is not looked at
Initialize_unguarded ==
    /\ pc = "gate"
    /\ IF load_raises(file)
       THEN pc' = "fatal" /\ UNCHANGED state
       ELSE pc' = "update" /\ state' = load_state(file)
    /\ UNCHANGED <<probes, errors, delivery, faults, config, now, paused, file, runs, current_time,
                   cleanup_calls, route_idx, route_departures, fetched,
                   all_alerts_to_send, all_delay_updates>>

\* main.py:122-136: StateManager() loads the state file; an exception it
\* raises ends main() with a traceback
Initialize ==
    /\ pc = "gate"
    /\ ~paused
    /\ IF load_raises(file)
       THEN pc' = "fatal" /\ UNCHANGED state
       ELSE pc' = "update" /\ state' = load_state(file)
    /\ UNCHANGED <<probes, errors, delivery, faults, config, now, paused, file, runs, current_time,
                   cleanup_calls, route_idx, route_departures, fetched,
                   all_alerts_to_send, all_delay_updates>>

\* main.py:139
UpdateLastRun ==
    /\ pc = "update"
    /\ state' = update_last_run(state, current_time)
    /\ \E outcome \in SaveOutcomes(faults) : Save(state', outcome)
    /\ pc' = "cleanup"
    /\ UNCHANGED <<probes, errors, delivery, config, now, paused, runs, current_time,
                   cleanup_calls, route_idx, route_departures, fetched,
                   all_alerts_to_send, all_delay_updates>>

\* main.py:142-149: cleanup_old_entries reads the clock again
Cleanup ==
    /\ pc = "cleanup"
    /\ now' \in ClockReads
    /\ state' = cleanup_old_entries(state, now', 2)
    /\ \E outcome \in SaveOutcomes(faults) : Save(state', outcome)
    /\ cleanup_calls' = Append(cleanup_calls, keys_of(state) \ keys_of(state'))
    /\ all_alerts_to_send' = <<>>
    /\ all_delay_updates' = <<>>
    /\ route_idx' = 1
    /\ route_departures' = <<>>
    /\ pc' = "route"
    /\ UNCHANGED <<probes, errors, delivery, config, paused, runs, current_time, fetched>>

\* the routes that are left are not checked
NextRoute_skips_rest ==
    /\ route_idx' = Len(config.routes) + 1
    /\ route_departures' = <<>>
    /\ pc' = "route"

\* main.py:226-228, main.py:168-170 and the end of the departure loop: on to
\* the next route
NextRoute ==
    /\ route_idx' = route_idx + 1
    /\ route_departures' = <<>>
    /\ pc' = "route"

\* main.py:158-160 when get_departures raises
FetchFails ==
    /\ pc = "route"
    /\ route_idx <= Len(config.routes)
    /\ errors' = Append(errors, config.routes[route_idx].route_id)
    /\ NextRoute
    /\ UNCHANGED <<probes, delivery, faults, config, now, paused, file, state, runs, current_time,
                   cleanup_calls, fetched, all_alerts_to_send,
                   all_delay_updates>>

\* main.py:158-172
FetchRoute ==
    /\ pc = "route"
    /\ route_idx <= Len(config.routes)
    /\ \E all_departures \in
            SeqsUpTo(FeedDepartures(current_time), MaxDepartures - fetched) :
         LET found == filter_departures_by_route(
                          all_departures, config.routes[route_idx].route_id)
         IN  /\ fetched' = fetched + Len(all_departures)
             /\ IF found = <<>>
                THEN NextRoute
                ELSE /\ route_departures' = found
                     /\ pc' = "departure"
                     /\ UNCHANGED route_idx
    /\ UNCHANGED <<probes, errors, delivery, faults, config, now, paused, file, state, runs, current_time,
                   cleanup_calls, all_alerts_to_send, all_delay_updates>>

\* the for statement of main.py:175 after one departure
AfterDeparture ==
    IF Tail(route_departures) = <<>>
    THEN NextRoute
    ELSE /\ route_departures' = Tail(route_departures)
         /\ UNCHANGED <<pc, route_idx>>

\* main.py:175-228: one departure of the route
ProcessDeparture ==
    /\ pc = "departure"
    /\ LET route_id == config.routes[route_idx].route_id
           stop_id == config.routes[route_idx].stop_id
           departure == Head(route_departures)
           trip_id == departure.trip_id
       IN  IF ~has_timestamp(departure)
           THEN \* ValueError, caught at main.py:226
                /\ errors' = Append(errors, route_id)
                /\ NextRoute
                /\ UNCHANGED <<now, file, faults, state, all_alerts_to_send,
                               all_delay_updates>>
           ELSE
           LET departure_time == parse_departure_time(departure)
               leave_time == calculate_leave_time(config, departure_time)
               should_alert ==
                   should_alert_now(config, departure_time, current_time)
               already_alerted == has_alerted(state, route_id, trip_id, stop_id)
           IN  /\ AfterDeparture
               /\ UNCHANGED errors
               /\ IF ~is_departure_relevant(config, departure_time, current_time)
                  THEN UNCHANGED <<now, file, faults, state, all_alerts_to_send,
                                   all_delay_updates>>
                  ELSE IF alert_needed(should_alert, already_alerted)
                  THEN /\ all_alerts_to_send' = Append(all_alerts_to_send,
                              with_fields(departure,
                                  [departure_datetime |-> departure_time,
                                   leave_datetime |-> leave_time]))
                       /\ state' = record_alert(state, route_id, trip_id,
                              stop_id, departure_time, current_time)
                       /\ \E outcome \in SaveOutcomes(faults) :
                              Save(state', outcome)
                       /\ UNCHANGED <<now, all_delay_updates>>
                  ELSE IF already_alerted
                  THEN LET tracked == get_tracked_departure(
                                          state, route_id, trip_id, stop_id)
                       IN  IF tracked = <<>>
                           THEN UNCHANGED <<now, file, faults, state,
                                    all_alerts_to_send, all_delay_updates>>
                           ELSE
                           LET original_time == fromisoformat(
                                   tracked[1].original_departure_time)
                               delay_minutes ==
                                   calculate_delay(original_time, departure_time)
                           IN  IF delay_needed(delay_minutes,
                                      config.delay_threshold_minutes,
                                      has_sent_delay_update(state, route_id,
                                          trip_id, stop_id))
                               THEN /\ all_delay_updates' =
                                        Append(all_delay_updates,
                                            [route |-> route_id,
                                             original_time |-> original_time,
                                             new_time |-> departure_time,
                                             delay_minutes |-> delay_minutes])
                                    /\ now' \in ClockReads
                                    /\ state' = record_delay_update(state,
                                           route_id, trip_id, stop_id,
                                           departure_time, now')
                                    /\ \E outcome \in SaveOutcomes(faults) :
                                           Save(state', outcome)
                                    /\ UNCHANGED all_alerts_to_send
                               ELSE UNCHANGED <<now, file, faults, state,
                                        all_alerts_to_send, all_delay_updates>>
                  ELSE UNCHANGED <<now, file, faults, state, all_alerts_to_send,
                                   all_delay_updates>>
    /\ UNCHANGED <<probes, delivery, config, paused, runs, current_time, cleanup_calls,
                   fetched>>

\* main.py:232-242
Deduplicate ==
    /\ pc = "route"
    /\ route_idx > Len(config.routes)
    /\ all_alerts_to_send' = dedup(all_alerts_to_send)
    /\ pc' = "send"
    /\ UNCHANGED <<probes, errors, delivery, faults, config, now, paused, file, state, runs, current_time,
                   cleanup_calls, route_idx, route_departures, fetched,
                   all_delay_updates>>

\* a send phase that takes back what the run recorded when the alert batch
\* was not delivered
Send_rolls_back ==
    /\ pc = "send"
    /\ pc' = "idle"
    /\ delivery' \in
        [alerts : IF all_alerts_to_send = <<>> THEN {"none"}
                  ELSE {"sent", "failed"},
         delays : [1..Len(all_delay_updates) -> {"sent", "failed"}]]
    /\ state' = IF delivery'.alerts = "failed"
                THEN [state EXCEPT !.tracked_departures = <<>>]
                ELSE state
    /\ file' = IF delivery'.alerts = "failed"
               THEN save_state(file, state', "ok")
               ELSE file
    /\ all_alerts_to_send' = <<>>
    /\ all_delay_updates' = <<>>
    /\ route_idx' = 1
    /\ UNCHANGED <<probes, errors, faults, config, now, paused, runs,
                   current_time, cleanup_calls, route_departures, fetched>>

\* main.py:244-285: the alert batch goes to the notifier in one message and
\* every delay update in one of its own; each send succeeds or fails
\* (send_message returns False on a RequestException); main returns and its
\* locals are gone
Send ==
    /\ pc = "send"
    /\ pc' = "idle"
    /\ delivery' \in
        [alerts : IF all_alerts_to_send = <<>> THEN {"none"}
                  ELSE {"sent", "failed"},
         delays : [1..Len(all_delay_updates) -> {"sent", "failed"}]]
    /\ all_alerts_to_send' = <<>>
    /\ all_delay_updates' = <<>>
    /\ route_idx' = 1
    /\ UNCHANGED <<probes, errors, faults, config, now, paused, file, state, runs,
                   current_time, cleanup_calls, route_departures, fetched>>

\* telegram_bot_commands.py: /stop and /start flip the pause file at any time
TogglePause ==
    /\ paused' = ~paused
    /\ UNCHANGED <<probes, errors, delivery, faults, config, now, file, state, pc, runs, current_time,
                   cleanup_calls, route_idx, route_departures, fetched,
                   all_alerts_to_send, all_delay_updates>>

Next ==
    \/ StartRun
    \/ ExitInactive
    \/ ExitPaused
    \/ Initialize
    \/ UpdateLastRun
    \/ Cleanup
    \/ FetchFails
    \/ FetchRoute
    \/ ProcessDeparture
    \/ Deduplicate
    \/ Send

\* runs of main() while nobody writes the pause file
Spec == Init /\ [][Next]_vars

\* runs of main() while the bot flips the pause file
NextPause ==
    \/ Next
    \/ TogglePause

SpecPause == Init /\ [][NextPause]_vars

\* what may be found in place of the state file when it was damaged outside
\* the program: text that is no JSON, or bytes that are no UTF-8 text
DamagedFiles ==
    {[exists |-> TRUE, text |-> [garbage |-> TRUE]],
     [exists |-> TRUE, text |-> [undecodable |-> TRUE]]}

\* the state file is damaged while no run is in progress
CorruptFile ==
    /\ pc \in {"idle", "fatal"}
    /\ file' \in DamagedFiles \ {file}
    /\ UNCHANGED <<probes, errors, delivery, faults, config, now, paused, state, pc, runs,
                   current_time, cleanup_calls, route_idx, route_departures,
                   fetched, all_alerts_to_send, all_delay_updates>>

\* runs of main() on a state file that may be damaged between them
NextCorrupt ==
    \/ Next
    \/ CorruptFile

SpecCorrupt == Init /\ [][NextCorrupt]_vars

(***************************************************************************)
(* AlertCalculator called on its own: the arguments are drawn at the       *)
(* start, and each method is applied to them                               *)
(***************************************************************************)
\* walking_time_minutes and advance_notice_minutes run over 0..MaxMinutes
MaxMinutes == 2

CalcConfigs ==
    [walking_time_minutes : 0..MaxMinutes,
     advance_notice_minutes : 0..MaxMinutes,
     delay_threshold_minutes : {1},
     routes : {<<[route_id |-> "A", stop_id |-> "S"]>>}]

CalcDeparture == StartTime + 2 * SecondsPerHour

\* current times: a second around every whole minute near the departure's
\* alert window and near the far end of its relevance window
CalcTimes ==
    {CalcDeparture - m * SecondsPerMinute + e :
        m \in (0..(2 * MaxMinutes)) \cup
              (max_wait_minutes..(max_wait_minutes + 2 * MaxMinutes)),
        e \in {-1, 0, 1}}

\* originally predicted departure times: whole and half minutes around
\* the departure, and a second either side of each
CalcOriginals ==
    {CalcDeparture + h * 30 + e : h \in -3..3, e \in {-1, 0, 1}}

InitCalc ==
    /\ config \in CalcConfigs
    /\ now = StartTime
    /\ paused = FALSE
    /\ file = [exists |-> FALSE, text |-> [garbage |-> TRUE]]
    /\ state = new_state
    /\ pc = "calc"
    /\ runs = 0
    /\ current_time = StartTime
    /\ cleanup_calls = <<>>
    /\ route_idx = 1
    /\ route_departures = <<>>
    /\ fetched = 0
    /\ faults = 0
    /\ all_alerts_to_send = <<>>
    /\ all_delay_updates = <<>>
    /\ errors = <<>>
    /\ delivery = NoDelivery
    /\ api = NoCall
    /\ calc \in [op : {"args"},
                 departure_time : {CalcDeparture},
                 current_time : CalcTimes,
                 original_departure_time : CalcOriginals]

main_vars == <<config, now, paused, file, state, pc, runs, current_time,
               cleanup_calls, route_idx, route_departures, fetched, faults,
               all_alerts_to_send, all_delay_updates, errors, delivery>>

Returned(name, value) ==
    /\ calc.op = "args"
    /\ calc' = [op |-> name,
                departure_time |-> calc.departure_time,
                current_time |-> calc.current_time,
                original_departure_time |-> calc.original_departure_time,
                result |-> value]
    /\ UNCHANGED <<main_vars, api>>

CallCalculateLeaveTime ==
    Returned("calculate_leave_time",
             calculate_leave_time(config, calc.departure_time))

CallCalculateAlertTime ==
    Returned("calculate_alert_time",
             calculate_alert_time(config, calc.departure_time))

CallShouldAlertNow ==
    Returned("should_alert_now",
             should_alert_now(config, calc.departure_time, calc.current_time))

CallIsDepartureRelevant ==
    Returned("is_departure_relevant",
             is_departure_relevant(config, calc.departure_time,
                                   calc.current_time))

CallCalculateDelay ==
    Returned("calculate_delay",
             calculate_delay(calc.original_departure_time,
                             calc.departure_time))

NextCalc ==
    \/ CallCalculateLeaveTime
    \/ CallCalculateAlertTime
    \/ CallShouldAlertNow
    \/ CallIsDepartureRelevant
    \/ CallCalculateDelay

SpecCalc == InitCalc /\ [][NextCalc]_vars

(***************************************************************************)
(* A StateManager driven directly: any sequence of its operations on a     *)
(* store that starts empty                                                 *)
(***************************************************************************)
MaxCalls == 3          \* operations in one behaviour

ApiKeys == {<<"A", "t1", "S">>, <<"A", "t1_x", "S">>, <<"A_t1", "x", "S">>}
\* departure times given to the operations, in seconds after the clock
ApiOffsets == {0, 60, 7200}
\* seconds the clock advances before an operation
ApiSteps == {0, 7200}

InitStore ==
    /\ config \in Configs
    /\ now = StartTime
    /\ paused = FALSE
    /\ file = [exists |-> FALSE, text |-> [garbage |-> TRUE]]
    /\ state = load_state(file)
    /\ pc = "api"
    /\ runs = 0
    /\ current_time = StartTime
    /\ cleanup_calls = <<>>
    /\ route_idx = 1
    /\ route_departures = <<>>
    /\ fetched = 0
    /\ faults = 0
    /\ all_alerts_to_send = <<>>
    /\ all_delay_updates = <<>>
    /\ errors = <<>>
    /\ delivery = NoDelivery
    /\ calc = NoCall
    /\ api = [op |-> "StateManager", n |-> 0]

\* an operation is called, some time after the last one
Called(call) ==
    /\ pc = "api"
    /\ api.n < MaxCalls
    /\ \E step \in ApiSteps : now' = now + step
    /\ api' = with_fields(call, [n |-> api.n + 1])
    /\ UNCHANGED <<errors, delivery, config, paused, pc, runs, current_time, cleanup_calls,
                   route_idx, route_departures, fetched, all_alerts_to_send,
                   all_delay_updates, calc>>

ApiUpdateLastRun ==
    /\ Called([op |-> "update_last_run"])
    /\ state' = update_last_run(state, now')
    /\ \E outcome \in SaveOutcomes(faults) : Save(state', outcome)

ApiRecordAlert ==
    \E k \in ApiKeys, off \in ApiOffsets :
        /\ Called([op |-> "record_alert", key |-> k,
                   departure_time |-> now + off])
        /\ state' = record_alert(state, k[1], k[2], k[3], now + off, now')
        /\ \E outcome \in SaveOutcomes(faults) : Save(state', outcome)

\* record_delay_update saves only when it finds the key
ApiRecordDelayUpdate ==
    \E k \in ApiKeys, off \in ApiOffsets :
        /\ Called([op |-> "record_delay_update", key |-> k,
                   departure_time |-> now + off])
        /\ state' = record_delay_update(state, k[1], k[2], k[3], now + off,
                                        now')
        /\ IF get_tracked_departure(state, k[1], k[2], k[3]) = <<>>
           THEN UNCHANGED <<file, faults>>
           ELSE \E outcome \in SaveOutcomes(faults) : Save(state', outcome)

ApiCleanupOldEntries ==
    /\ Called([op |-> "cleanup_old_entries"])
    /\ state' = cleanup_old_entries(state, now', 2)
    /\ \E outcome \in SaveOutcomes(faults) : Save(state', outcome)

NextStore ==
    \/ ApiUpdateLastRun
    \/ ApiRecordAlert
    \/ ApiRecordDelayUpdate
    \/ ApiCleanupOldEntries

SpecStore == InitStore /\ [][NextStore]_vars

(***************************************************************************)
(* The end of a run whose departure loop queued up to MaxQueue alerts: the *)
(* dedup pass and the send phase                                           *)
(***************************************************************************)
MaxQueue == 4          \* alerts queued by the departure loop of one run

DedupTripIds == {"t1", "t2", "t3"}

\* departures that are relevant and due at StartTime: the two ends of the
\* alert window
DueDepartures ==
    [route_id : RouteIds, trip_id : DedupTripIds,
     departure_time : {StartTime + 120, StartTime + 180}]

\* main.py:192-197: the queue entry of a departure
queued_alert(cfg, departure) ==
    with_fields(departure,
        [departure_datetime |-> parse_departure_time(departure),
         leave_datetime |->
             calculate_leave_time(cfg, parse_departure_time(departure))])

\* the store after record_alert for each of the departures, in their order
RECURSIVE alerts_recorded(_, _, _, _)
alerts_recorded(st, departures, stop_id, alert_time) ==
    IF departures = <<>> THEN st
    ELSE alerts_recorded(
             record_alert(st, Head(departures).route_id,
                 Head(departures).trip_id, stop_id,
                 parse_departure_time(Head(departures)), alert_time),
             Tail(departures), stop_id, alert_time)

\* the departures a departure loop can have queued: one per trip of a route
\* (has_alerted is true after the first), route after route in the order of
\* the configuration
QueuedDepartures(cfg) ==
    LET position(route_id) ==
            CHOOSE i \in 1..Len(cfg.routes) : cfg.routes[i].route_id = route_id
    IN  {q \in SeqsUpTo(DueDepartures, MaxQueue) :
            \A i, j \in 1..Len(q) :
                i < j =>
                    /\ position(q[i].route_id) <= position(q[j].route_id)
                    /\ ~(/\ q[i].route_id = q[j].route_id
                         /\ q[i].trip_id = q[j].trip_id)}

InitDedup ==
    /\ config \in Configs
    /\ now = StartTime + 60
    /\ paused = FALSE
    /\ pc = "route"
    /\ runs = 1
    /\ current_time = StartTime + 60
    /\ cleanup_calls = <<{}>>
    /\ route_idx = Len(config.routes) + 1
    /\ route_departures = <<>>
    /\ faults = 0
    /\ all_delay_updates = <<>>
    /\ errors = <<>>
    /\ delivery = NoDelivery
    /\ calc = NoCall
    /\ api = NoCall
    /\ \E departures \in QueuedDepartures(config) :
        /\ fetched = Len(departures)
        /\ all_alerts_to_send =
               [i \in 1..Len(departures) |-> queued_alert(config, departures[i])]
        /\ state = alerts_recorded(update_last_run(new_state, current_time),
                       departures, config.routes[1].stop_id, current_time)
        /\ file = save_state([exists |-> FALSE, text |-> [garbage |-> TRUE]],
                      state, "ok")

NextDedup ==
    \/ Deduplicate
    \/ Send

SpecDedup == InitDedup /\ [][NextDedup]_vars

(***************************************************************************)
(* What the claims speak of                                                *)
(***************************************************************************)
StopIds == {config.routes[i].stop_id : i \in 1..Len(config.routes)}
Keys == RouteIds \X TripIds \X StopIds

\* the record tracked under the key of a triple: <<>> or <<record>>
Tracked(st, k) == get_tracked_departure(st, k[1], k[2], k[3])
IsTracked(st, k) == Tracked(st, k) # <<>>
DelaySent(st, k) == IsTracked(st, k) /\ Tracked(st, k)[1].delay_update_sent

KeyState(st, k) ==
    IF ~IsTracked(st, k) THEN "UNSEEN"
    ELSE IF DelaySent(st, k) THEN "DELAY_NOTIFIED"
    ELSE "ALERTED"

\* main() is examining a departure: the triple it is about
Examining == pc = "departure"
ExaminedKey ==
    <<config.routes[route_idx].route_id,
      Head(route_departures).trip_id,
      config.routes[route_idx].stop_id>>
ExaminedTime == Head(route_departures).departure_time

\* the step appends one entry to a queue of main()
QueuesAlert == Len(all_alerts_to_send') = Len(all_alerts_to_send) + 1
QueuesDelay == Len(all_delay_updates') = Len(all_delay_updates) + 1

\* the retention of main.py:142, in seconds
Retention == 2 * SecondsPerHour

(***************************************************************************)
(* The claims                                                              *)
(***************************************************************************)
\* C1: no duplicate initial alert.  A step that queues a new alert queues it
\* for the departure examined and leaves a record under its key in the
\* store; and while a record is in the store under the key of the departure
\* examined, in the run that alerted or in a later one that loaded it, the
\* step queues no new alert.
C1_NoDuplicateInitialAlert ==
    [][Examining =>
        /\ IsTracked(state, ExaminedKey) => ~QueuesAlert
        /\ QueuesAlert =>
            /\ IsTracked(state', ExaminedKey)
            /\ all_alerts_to_send'[Len(all_alerts_to_send')].route_id
                   = ExaminedKey[1]
            /\ all_alerts_to_send'[Len(all_alerts_to_send')].trip_id
                   = ExaminedKey[2]
      ]_vars

\* a later run examines, inside its alert window, a departure whose key an
\* earlier run alerted
C1_Witness ==
    /\ Examining
    /\ has_timestamp(Head(route_departures))
    /\ IsTracked(state, ExaminedKey)
    /\ should_alert_now(config, ExaminedTime, current_time)
    /\ Tracked(state, ExaminedKey)[1].initial_alert_time
           # isoformat(current_time)

\* C2: at most one delay update per key.  A step that queues a delay update
\* leaves delay_update_sent true in the record of the departure examined; and
\* while delay_update_sent is true in that record, the step queues no delay
\* update, whatever the departure time observed.
C2_AtMostOneDelayUpdate ==
    [][Examining =>
        /\ DelaySent(state, ExaminedKey) => ~QueuesDelay
        /\ QueuesDelay => DelaySent(state', ExaminedKey)
      ]_vars

\* a departure whose delay update was sent is seen again, relevant and
\* later still
C2_Witness ==
    /\ Examining
    /\ has_timestamp(Head(route_departures))
    /\ DelaySent(state, ExaminedKey)
    /\ is_departure_relevant(config, ExaminedTime, current_time)
    /\ ExaminedTime
           > fromisoformat(Tracked(state, ExaminedKey)[1].current_departure_time)
    /\ calculate_delay(
           fromisoformat(Tracked(state, ExaminedKey)[1].original_departure_time),
           ExaminedTime) >= config.delay_threshold_minutes

\* the state file holds what the StateManager of the last run left in memory
StoreKept == file.exists /\ file.text = json_dump(state)

\* C3: the state of a key changes only from UNSEEN to ALERTED (the step
\* queues the alert of a departure with that key), from ALERTED to
\* DELAY_NOTIFIED (the step queues its delay update) and to UNSEEN in
\* cleanup_old_entries.  Loading the store at the start of a run changes no
\* key's state unless the store was lost (the file is not what the last run
\* left).
C3_KeyStateMonotonic ==
    [][\A k \in Keys :
        LET before == KeyState(state, k)
            after == KeyState(state', k)
            examined ==
                /\ Examining
                /\ create_departure_key(k[1], k[2], k[3]) =
                       create_departure_key(ExaminedKey[1], ExaminedKey[2],
                                            ExaminedKey[3])
        IN  \/ after = before
            \/ before = "UNSEEN" /\ after = "ALERTED"
                  /\ examined /\ QueuesAlert
            \/ before = "ALERTED" /\ after = "DELAY_NOTIFIED"
                  /\ examined /\ QueuesDelay
            \/ after = "UNSEEN" /\ pc = "cleanup"
            \/ pc = "gate" /\ ~StoreKept
      ]_vars

\* C3 as stated: whatever happened to the state file, no step changes the
\* state of a key except by the three transitions
C3_KeyStateMonotonicAlways ==
    [][\A k \in Keys :
        LET before == KeyState(state, k)
            after == KeyState(state', k)
        IN  \/ after = before
            \/ before = "UNSEEN" /\ after = "ALERTED" /\ Examining
            \/ before = "ALERTED" /\ after = "DELAY_NOTIFIED" /\ Examining
            \/ after = "UNSEEN" /\ pc = "cleanup"
      ]_vars

\* in a second run the store holds a key in DELAY_NOTIFIED and another in
\* ALERTED
C3_Witness ==
    /\ runs = 2
    /\ pc = "route"
    /\ \E k1, k2 \in Keys :
        /\ KeyState(state, k1) = "DELAY_NOTIFIED"
        /\ KeyState(state, k2) = "ALERTED"

\* C4: after any sequence of StateManager operations on a store that starts
\* empty, every tracked record has initial_alert_sent = true, and
\* has_alerted(key) is true exactly when get_tracked_departure(key) returns a
\* record.
C4_TrackedMeansAlerted ==
    /\ \A i \in 1..Len(state.tracked_departures) :
        get(state.tracked_departures[i], "initial_alert_sent", FALSE) = TRUE
    /\ \A k \in ApiKeys :
        has_alerted(state, k[1], k[2], k[3])
            <=> get_tracked_departure(state, k[1], k[2], k[3]) # <<>>

\* a record with its delay update recorded, and record_delay_update just
\* called for a key that is not tracked
C4_Witness ==
    /\ pc = "api"
    /\ \E i \in 1..Len(state.tracked_departures) :
        state.tracked_departures[i].delay_update_sent
    /\ api.op = "record_delay_update"
    /\ get_tracked_departure(state, api.key[1], api.key[2], api.key[3]) = <<>>

\* the departure examined has a departure time, and parse_departure_time
\* returns
Parsed == Examining /\ has_timestamp(Head(route_departures))

\* C5: the step that examines a departure queues a new alert, and
\* record_alert inserts a record under its key, exactly when the departure is
\* relevant, should_alert_now is true and has_alerted(key) is false; when
\* has_alerted(key) is true the record's original_departure_time and
\* initial_alert_time are left as they are.  A departure without a departure
\* time queues nothing.
C5_NewAlertExactlyWhenDue ==
    [][Examining =>
        LET k == ExaminedKey
            due ==
                /\ Parsed
                /\ is_departure_relevant(config, ExaminedTime, current_time)
                /\ should_alert_now(config, ExaminedTime, current_time)
                /\ ~has_alerted(state, k[1], k[2], k[3])
        IN  /\ QueuesAlert <=> due
            /\ (~IsTracked(state, k) /\ IsTracked(state', k)) <=> due
            /\ due =>
                /\ Tracked(state', k)[1].original_departure_time
                       = isoformat(ExaminedTime)
                /\ Tracked(state', k)[1].initial_alert_time
                       = isoformat(current_time)
            /\ has_alerted(state, k[1], k[2], k[3]) =>
                /\ IsTracked(state', k)
                /\ Tracked(state', k)[1].original_departure_time
                       = Tracked(state, k)[1].original_departure_time
                /\ Tracked(state', k)[1].initial_alert_time
                       = Tracked(state, k)[1].initial_alert_time
      ]_vars

\* an alert has been queued and recorded in this run, and the departure now
\* examined is relevant but its alert is not yet due
C5_Witness ==
    /\ Parsed
    /\ Len(all_alerts_to_send) = 1
    /\ IsTracked(state, <<all_alerts_to_send[1].route_id,
                          all_alerts_to_send[1].trip_id,
                          config.routes[route_idx].stop_id>>)
    /\ is_departure_relevant(config, ExaminedTime, current_time)
    /\ ~should_alert_now(config, ExaminedTime, current_time)
    /\ ~IsTracked(state, ExaminedKey)

C7_AlertWindowClosed ==
    calc.op = "should_alert_now" =>
        LET leave_time ==
                calc.departure_time - config.walking_time_minutes * 60
            alert_time == leave_time - config.advance_notice_minutes * 60
            t == calc.current_time
        IN  /\ calc.result <=> (alert_time <= t /\ t <= leave_time)
            /\ t \in {alert_time, leave_time} => calc.result
            /\ t \in {alert_time - 1, leave_time + 1} => ~calc.result
            /\ t > leave_time => ~calc.result

\* should_alert_now has returned true at the leave time of a window that
\* is not a single instant
C7_Witness ==
    /\ calc.op = "should_alert_now"
    /\ calc.result
    /\ config.advance_notice_minutes > 0
    /\ calc.current_time
           = calc.departure_time - config.walking_time_minutes * 60

\* C8: is_departure_relevant is true exactly when the alert time is at most
\* advance_notice_minutes behind the current time and at most 60 minutes
\* ahead of it, both ends included, and the step that examines a departure
\* for which it is false changes neither the store nor the file nor a queue.
C8_RelevanceWindow ==
    [][Parsed =>
        LET until_alert ==
                ExaminedTime
                    - (config.walking_time_minutes
                         + config.advance_notice_minutes) * 60
                    - current_time
            relevant ==
                /\ -(config.advance_notice_minutes * 60) <= until_alert
                /\ until_alert <= 60 * 60
        IN  /\ is_departure_relevant(config, ExaminedTime, current_time)
                <=> relevant
            /\ ~relevant =>
                UNCHANGED <<state, file, all_alerts_to_send, all_delay_updates>>
      ]_vars

\* a tracked departure is seen again, an hour late and a second beyond the
\* far end of the window
C8_Witness ==
    /\ Parsed
    /\ IsTracked(state, ExaminedKey)
    /\ ~DelaySent(state, ExaminedKey)
    /\ ExaminedTime - (config.walking_time_minutes
                         + config.advance_notice_minutes) * 60
           - current_time = 60 * 60 + 1

\* C9: cleanup_old_entries removes exactly the records whose
\* original_departure_time is before the cutoff (the clock less the
\* retention) and keeps the others, the one at the cutoff too, in their order
\* and as they were.
C9_CleanupRemovesExactlyOlder ==
    [][pc = "cleanup" =>
        LET not_older(dep) ==
                fromisoformat(dep.original_departure_time) >= now' - Retention
        IN  state'.tracked_departures
                = SelectSeq(state.tracked_departures, not_older)
      ]_vars

\* in the decision phase of a run
Deciding == pc \in {"route", "departure", "send"}

\* C10: whenever a run is in its decision phase, cleanup_old_entries has
\* been called exactly once in the run, and the store holds no record whose
\* original_departure_time is before the cutoff taken at the start of the
\* run.
C10_CleanupBeforeDecisions ==
    Deciding =>
        /\ Len(cleanup_calls) = 1
        /\ \A i \in 1..Len(state.tracked_departures) :
            fromisoformat(state.tracked_departures[i].original_departure_time)
                >= current_time - Retention

\* the run's cleanup removed the record of a key two hours and more after
\* its departure, and a departure with that key is examined, due and not
\* tracked
C10_Witness ==
    /\ Parsed
    /\ current_time >= StartTime + Retention + 120
    /\ Len(cleanup_calls) = 1
    /\ create_departure_key(ExaminedKey[1], ExaminedKey[2], ExaminedKey[3])
           \in cleanup_calls[1]
    /\ should_alert_now(config, ExaminedTime, current_time)
    /\ ~IsTracked(state, ExaminedKey)

\* the fields record_delay_update writes
DelayFields == {"delay_update_sent", "current_departure_time",
                "delay_update_time"}

\* C11: in every step of a run, a key tracked before and after the step has
\* the same original_departure_time (a load that brings back the records of
\* a file the last run could not write is no step on the record).  The step
\* that queues a delay update changes, in the whole store, only the fields
\* delay_update_sent, current_departure_time and delay_update_time of the
\* record of the departure examined.
C11_OriginalTimeImmutable ==
    [][/\ \A k \in Keys :
            (IsTracked(state, k) /\ IsTracked(state', k)) =>
                \/ Tracked(state', k)[1].original_departure_time
                       = Tracked(state, k)[1].original_departure_time
                \/ pc = "gate" /\ ~StoreKept
       /\ (Examining /\ QueuesDelay) =>
            LET key == create_departure_key(ExaminedKey[1], ExaminedKey[2],
                                            ExaminedKey[3])
                i == first_index(state, key)
                before == state.tracked_departures
                after == state'.tracked_departures
            IN  /\ i # 0
                /\ state'.last_run = state.last_run
                /\ Len(after) = Len(before)
                /\ \A j \in 1..Len(before) : j # i => after[j] = before[j]
                /\ DOMAIN after[i] = DOMAIN before[i] \cup DelayFields
                /\ \A name \in DOMAIN before[i] \ DelayFields :
                        after[i][name] = before[i][name]
      ]_vars

\* a later run examines again, still relevant and at yet another time, a
\* departure whose delay update moved current_departure_time away from
\* original_departure_time
C11_Witness ==
    /\ runs = 2
    /\ Parsed
    /\ DelaySent(state, ExaminedKey)
    /\ Tracked(state, ExaminedKey)[1].current_departure_time
           # Tracked(state, ExaminedKey)[1].original_departure_time
    /\ isoformat(ExaminedTime)
           \notin {Tracked(state, ExaminedKey)[1].current_departure_time,
                   Tracked(state, ExaminedKey)[1].original_departure_time}
    /\ is_departure_relevant(config, ExaminedTime, current_time)
    /\ Len(state.tracked_departures) > 1

\* the indices of the records kept under the key of a triple
RecordsOf(st, k) ==
    {i \in 1..Len(st.tracked_departures) :
        get(st.tracked_departures[i], "key", None)
            = create_departure_key(k[1], k[2], k[3])}

\* C12: after a call of record_alert for a key, the first or a repeated one,
\* with the same departure time or another, has_alerted(key) is true and the
\* store holds exactly one record under the key; and no sequence of
\* operations leaves two records under one key.
C12_RecordAlertIdempotent ==
    /\ api.op = "record_alert" =>
        /\ has_alerted(state, api.key[1], api.key[2], api.key[3])
        /\ Cardinality(RecordsOf(state, api.key)) = 1
    /\ \A k \in ApiKeys : Cardinality(RecordsOf(state, k)) <= 1

\* record_alert has been called for a key, then for another, then for the
\* first again, at a later clock: the first record is still the first of two
C12_Witness ==
    /\ api.op = "record_alert"
    /\ api.n = 3
    /\ Len(state.tracked_departures) = 2
    /\ RecordsOf(state, api.key) = {1}
    /\ now > StartTime
    /\ state.tracked_departures[1].initial_alert_time = isoformat(now)
    /\ state.tracked_departures[1].original_departure_time
           = isoformat(api.departure_time)

\* the step is a call of the StateManager operation named
Calls(name) == pc = "api" /\ api'.n = api.n + 1 /\ api'.op = name

\* the fields record_alert writes in a record that exists
AlertFields == {"initial_alert_sent", "initial_alert_time",
                "original_departure_time", "current_departure_time"}

\* C13: a call record_alert(key, departure_time, alert_time) leaves last_run
\* and the records of the other keys as they were.  When a record is under
\* the key, the store has as many records as before, and that record has
\* initial_alert_sent = true, initial_alert_time = alert_time,
\* original_departure_time and current_departure_time = departure_time and
\* its other fields as before; when none is, one record is appended, with
\* these values and delay_update_sent = false.
C13_RecordAlertUpsert ==
    [][Calls("record_alert") =>
        LET k == api'.key
            i == first_index(state, create_departure_key(k[1], k[2], k[3]))
            before == state.tracked_departures
            after == state'.tracked_departures
            written(dep) ==
                /\ dep.initial_alert_sent = TRUE
                /\ dep.initial_alert_time = isoformat(now')
                /\ dep.original_departure_time = isoformat(api'.departure_time)
                /\ dep.current_departure_time = isoformat(api'.departure_time)
        IN  /\ state'.last_run = state.last_run
            /\ IF i # 0
               THEN /\ Len(after) = Len(before)
                    /\ \A j \in 1..Len(before) : j # i => after[j] = before[j]
                    /\ written(after[i])
                    /\ DOMAIN after[i] = DOMAIN before[i]
                    /\ \A name \in DOMAIN before[i] \ AlertFields :
                            after[i][name] = before[i][name]
               ELSE /\ Len(after) = Len(before) + 1
                    /\ SubSeq(after, 1, Len(before)) = before
                    /\ written(after[Len(after)])
                    /\ after[Len(after)].key
                           = create_departure_key(k[1], k[2], k[3])
                    /\ after[Len(after)].route_id = k[1]
                    /\ after[Len(after)].trip_id = k[2]
                    /\ after[Len(after)].stop_id = k[3]
                    /\ after[Len(after)].delay_update_sent = FALSE
      ]_vars

\* record_alert has been called, two hours after its delay update was
\* recorded, for the only key of the store
C13_Witness ==
    /\ api.op = "record_alert"
    /\ Len(state.tracked_departures) = 1
    /\ RecordsOf(state, api.key) = {1}
    /\ "delay_update_time" \in DOMAIN state.tracked_departures[1]
    /\ state.tracked_departures[1].delay_update_time # isoformat(now)
    /\ state.tracked_departures[1].initial_alert_time = isoformat(now)

\* C14: after a call of record_alert the key is in ALERTED: has_alerted(key)
\* is true and has_sent_delay_update(key) is false, whatever the state of the
\* key before the call.
C14_RecordAlertRecreatesAlerted ==
    api.op = "record_alert" =>
        /\ has_alerted(state, api.key[1], api.key[2], api.key[3])
        /\ ~has_sent_delay_update(state, api.key[1], api.key[2], api.key[3])

\* C15: for a key with no record has_sent_delay_update(key) is false, and a
\* call of record_delay_update for such a key returns with the store as it
\* was: the state in memory is unchanged, no record is created, and the state
\* file is not written.
C15_DelayPathInertWhenAbsent ==
    [][/\ \A k \in ApiKeys :
            RecordsOf(state, k) = {} =>
                ~has_sent_delay_update(state, k[1], k[2], k[3])
       /\ (Calls("record_delay_update") /\ RecordsOf(state, api'.key) = {}) =>
            /\ state' = state
            /\ file' = file
            /\ faults' = faults
            /\ RecordsOf(state', api'.key) = {}
      ]_vars

\* record_delay_update has been called for a key with no record, on a store
\* that tracks another key and is saved in the state file
C15_Witness ==
    /\ api.op = "record_delay_update"
    /\ RecordsOf(state, api.key) = {}
    /\ Len(state.tracked_departures) = 1
    /\ ~state.tracked_departures[1].delay_update_sent
    /\ state.last_run # None
    /\ StoreKept

\* C16: the new-alert queue of a run, and so the batch handed to the
\* notifier, never holds two alerts of one trip of one route, also when the
\* feed reports the trip twice with different departure times.
C16_SameTripSingleAlert ==
    \A i, j \in 1..Len(all_alerts_to_send) :
        (/\ all_alerts_to_send[i].route_id = all_alerts_to_send[j].route_id
         /\ all_alerts_to_send[i].trip_id = all_alerts_to_send[j].trip_id)
            => i = j

\* the trip whose alert this run has queued is examined a second time, with
\* another departure time that is inside its alert window too
C16_Witness ==
    /\ Parsed
    /\ Len(all_alerts_to_send) = 1
    /\ all_alerts_to_send[1].route_id = ExaminedKey[1]
    /\ all_alerts_to_send[1].trip_id = ExaminedKey[2]
    /\ all_alerts_to_send[1].departure_time # ExaminedTime
    /\ should_alert_now(config, ExaminedTime, current_time)
    /\ is_departure_relevant(config, ExaminedTime, current_time)

\* the (route_id, raw departure_time) of an alert
Pair(alert) == <<alert.route_id, alert.departure_time>>

\* C17: the dedup pass leaves a batch in which no two alerts have the same
\* (route_id, departure_time); the batch is a subsequence of the queue (its
\* alerts are alerts of the queue, in the order of the queue); and for every
\* alert of the queue the batch holds the first alert queued with its pair
\* and no later one.  The send phase is handed that batch.
C17_BatchIsDedupedQueue ==
    [][(pc = "route" /\ pc' = "send") =>
        LET queue == all_alerts_to_send
            batch == all_alerts_to_send'
            first_with(pair) ==
                CHOOSE i \in 1..Len(queue) :
                    /\ Pair(queue[i]) = pair
                    /\ \A j \in 1..(i - 1) : Pair(queue[j]) # pair
        IN  /\ \A i, j \in 1..Len(batch) :
                    Pair(batch[i]) = Pair(batch[j]) => i = j
            /\ \E at \in [1..Len(batch) -> 1..Len(queue)] :
                    /\ \A i, j \in 1..Len(batch) : i < j => at[i] < at[j]
                    /\ \A i \in 1..Len(batch) : batch[i] = queue[at[i]]
            /\ \A k \in 1..Len(queue) :
                    \E i \in 1..Len(batch) :
                        batch[i] = queue[first_with(Pair(queue[k]))]
      ]_vars

\* the send phase holds a batch of two alerts out of four queued and
\* recorded: the first and the third queued, the second and the fourth were
\* dropped
C17_Witness ==
    /\ pc = "send"
    /\ Len(state.tracked_departures) = 4
    /\ Len(all_alerts_to_send) = 2
    /\ \A i \in 1..2 :
        /\ all_alerts_to_send[i].route_id
               = state.tracked_departures[2 * i - 1].route_id
        /\ all_alerts_to_send[i].trip_id
               = state.tracked_departures[2 * i - 1].trip_id

\* the check of a route raises in this step (get_departures or
\* parse_departure_time) and main.py:226 catches it
Raised == Len(errors') = Len(errors) + 1

\* q is the beginning of r
IsPrefix(q, r) == Len(q) <= Len(r) /\ SubSeq(r, 1, Len(q)) = q

\* C18: the step in which the check of a route raises goes on to the next
\* route with the store, the state file and both queues as they were; from
\* there main() can always go on (fetch the next route, or after the last one
\* run the dedup pass and the send phase); and until the dedup pass no step
\* takes an entry out of a queue or a record out of the store, so that what
\* was queued and recorded for the other routes reaches the send phase.
C18_RouteFailureIsolated ==
    [][/\ Raised =>
            /\ pc' = "route"
            /\ route_idx' = route_idx + 1
            /\ UNCHANGED <<state, file, all_alerts_to_send, all_delay_updates>>
       /\ (pc = "route" /\ errors # <<>>) =>
            IF route_idx <= Len(config.routes)
            THEN ENABLED FetchRoute
            ELSE ENABLED Deduplicate
       /\ (pc = "send" /\ errors # <<>>) => ENABLED Send
       /\ (pc \in {"route", "departure"} /\ pc' \in {"route", "departure"}) =>
            /\ IsPrefix(all_alerts_to_send, all_alerts_to_send')
            /\ IsPrefix(all_delay_updates, all_delay_updates')
            /\ keys_of(state) \subseteq keys_of(state')
       /\ pc = "route" /\ pc' = "send" => UNCHANGED <<state, all_delay_updates>>
      ]_vars

\* the check of the first route raised, and the send phase holds the alert
\* of a departure of the second route, recorded in the store and the file
C18_Witness ==
    /\ pc = "send"
    /\ errors = <<config.routes[1].route_id>>
    /\ Len(all_alerts_to_send) = 1
    /\ all_alerts_to_send[1].route_id = config.routes[2].route_id
    /\ IsTracked(state, <<config.routes[2].route_id,
                          all_alerts_to_send[1].trip_id,
                          config.routes[2].stop_id>>)
    /\ StoreKept

\* C19: when the departure examined has no departure time and the feed
\* listed other departures of the route after it, main() goes on with the
\* next of them: only the one departure is skipped.
C19_OnlyThatDepartureSkipped ==
    [][(/\ Examining
        /\ ~has_timestamp(Head(route_departures))
        /\ Tail(route_departures) # <<>>) =>
            /\ pc' = "departure"
            /\ route_idx' = route_idx
            /\ route_departures' = Tail(route_departures)
      ]_vars

\* the step is StateManager() loading the state file
Loads == pc = "gate" /\ pc' \notin {"gate", "idle"}

\* the state file is there and does not hold the JSON text of a state
LoadFails == file.exists /\ "json" \notin DOMAIN file.text

\* C20: when the state file cannot be read or parsed, StateManager() returns
\* with the empty store (last_run null, no tracked departures) and the run
\* goes on; and a departure that is relevant and due and has no record in
\* the store is queued as a new alert.
C20_LoadFailureStartsEmpty ==
    [][/\ (Loads /\ LoadFails) =>
            /\ pc' = "update"
            /\ state' = [last_run |-> None, tracked_departures |-> <<>>]
       /\ (/\ Parsed
           /\ is_departure_relevant(config, ExaminedTime, current_time)
           /\ should_alert_now(config, ExaminedTime, current_time)
           /\ ~IsTracked(state, ExaminedKey)) => QueuesAlert
      ]_vars

\* a call of _save_state fails in this step
SaveFails == faults' = faults + 1

\* the record the state file holds under the key of a triple: <<>> when the
\* file holds none or cannot be loaded
PersistedIn(f, k) == IF load_raises(f) THEN <<>> ELSE Tracked(load_state(f), k)
Persisted(k) == PersistedIn(file, k)

\* C21: a step whose save fails goes on with the run, and leaves the store
\* in memory as a step whose save succeeds does: the alert queued is
\* recorded under the key, the delay update queued sets delay_update_sent.
\* So in the same run, whatever the state file holds, a key with a record in
\* memory is not alerted again and a key with delay_update_sent gets no
\* second delay update; the file is left without the change (it holds what
\* it held of the key, or nothing that loads), and that is what the next run
\* loads.
C21_SaveFailureKeepsMemory ==
    [][/\ SaveFails =>
            /\ pc' \in {"cleanup", "route", "departure"}
            /\ runs' = runs
            /\ (Examining /\ QueuesAlert) =>
                    /\ IsTracked(state', ExaminedKey)
                    /\ PersistedIn(file', ExaminedKey)
                           \in {<<>>, Persisted(ExaminedKey)}
            /\ (Examining /\ QueuesDelay) =>
                    /\ DelaySent(state', ExaminedKey)
                    /\ PersistedIn(file', ExaminedKey)
                           \in {<<>>, Persisted(ExaminedKey)}
       /\ (Examining /\ ~StoreKept) =>
            /\ IsTracked(state, ExaminedKey) => ~QueuesAlert
            /\ DelaySent(state, ExaminedKey) => ~QueuesDelay
       /\ (Loads /\ ~StoreKept /\ pc' = "update") =>
            \A k \in Keys : Tracked(state', k) = Persisted(k)
      ]_vars

\* in the run that recorded its delay update with a save that failed, a
\* departure is reported once more, relevant and later again, while the
\* state file holds its record without the delay update
C21_Witness ==
    /\ Parsed
    /\ faults = 1
    /\ DelaySent(state, ExaminedKey)
    /\ Persisted(ExaminedKey) # <<>>
    /\ ~Persisted(ExaminedKey)[1].delay_update_sent
    /\ is_departure_relevant(config, ExaminedTime, current_time)
    /\ calculate_delay(
           fromisoformat(Tracked(state, ExaminedKey)[1].original_departure_time),
           ExaminedTime) >= config.delay_threshold_minutes

\* the step is a call of an operation that changes the store and saves it,
\* and the save succeeds
SavedCall ==
    /\ pc = "api"
    /\ api'.n = api.n + 1
    /\ faults' = faults
    /\ \/ api'.op \in {"update_last_run", "record_alert", "cleanup_old_entries"}
       \/ api'.op = "record_delay_update" /\ RecordsOf(state, api'.key) # {}

Touched == <<state, file, faults, fetched, errors, all_alerts_to_send,
             all_delay_updates>>

\* a step of main(), not one of the bot
RunStep == pc' # pc \/ route_departures' # route_departures

\* C23: main() reads the pause flag at one place, before StateManager() is
\* constructed.  A run that ends there (paused, or outside the active time)
\* leaves the store, the state file, the feed and the queues untouched; a run
\* goes past it only when the flag reads not paused; the bot's writing the
\* flag changes nothing a run keeps; and once past, what the run queues and
\* records is decided by the departure, the clock and the store alone, the
\* same whether the flag now says paused or not.
C23_PauseReadOncePerRun ==
    [][/\ (pc = "gate" /\ pc' = "idle") => UNCHANGED Touched
       /\ (pc = "gate" /\ paused /\ RunStep) => pc' = "idle"
       /\ (pc = "gate" /\ pc' \in {"update", "fatal"}) => ~paused
       /\ paused' # paused => UNCHANGED <<Touched, pc, runs, route_idx,
                                          route_departures, current_time>>
       /\ (pc \in {"update", "cleanup", "route", "departure", "send"}
              /\ paused) => ENABLED Next
       /\ (Examining /\ RunStep) =>
            LET k == ExaminedKey
                relevant ==
                    /\ Parsed
                    /\ is_departure_relevant(config, ExaminedTime, current_time)
            IN  /\ QueuesAlert <=>
                    /\ relevant
                    /\ should_alert_now(config, ExaminedTime, current_time)
                    /\ ~has_alerted(state, k[1], k[2], k[3])
                /\ QueuesDelay <=>
                    /\ relevant
                    /\ has_alerted(state, k[1], k[2], k[3])
                    /\ ~has_sent_delay_update(state, k[1], k[2], k[3])
                    /\ calculate_delay(
                           fromisoformat(
                               Tracked(state, k)[1].original_departure_time),
                           ExaminedTime) >= config.delay_threshold_minutes
                /\ (~QueuesAlert /\ ~QueuesDelay) => UNCHANGED <<state, file>>
      ]_vars

\* the flag was flipped to paused after the run read it: the send phase
\* holds an alert queued and recorded in this run
C23_Witness ==
    /\ pc = "send"
    /\ paused
    /\ Len(all_alerts_to_send) = 1
    /\ \E k \in Keys :
        /\ IsTracked(state, k)
        /\ Tracked(state, k)[1].initial_alert_time = isoformat(current_time)

\* the store holds a record of the route and trip of a queued alert
AlertCommitted(st, alert) ==
    \E k \in Keys :
        /\ k[1] = alert.route_id
        /\ k[2] = alert.trip_id
        /\ has_alerted(st, k[1], k[2], k[3])

\* the store holds a record of the route of a queued delay update, with its
\* original and its new time, that says the delay update was sent
DelayCommitted(st, update) ==
    \E k \in Keys :
        /\ k[1] = update.route
        /\ has_sent_delay_update(st, k[1], k[2], k[3])
        /\ Tracked(st, k)[1].original_departure_time
               = isoformat(update.original_time)
        /\ Tracked(st, k)[1].current_departure_time
               = isoformat(update.new_time)

C25_AlertLeaveDepartureOrder ==
    LET departure == calc.departure_time
        walking == config.walking_time_minutes * 60
        notice == config.advance_notice_minutes * 60
    IN  /\ calc.op = "calculate_leave_time" =>
            /\ calc.result = departure - walking
            /\ calc.result <= departure
        /\ calc.op = "calculate_alert_time" =>
            /\ calc.result = (departure - walking) - notice
            /\ calc.result <= departure - walking
            /\ calc.result <= calculate_leave_time(config, departure)
            /\ calculate_leave_time(config, departure) <= departure
            /\ should_alert_now(config, departure, calc.result)

\* calculate_alert_time has returned for a traveller who walks and who asks
\* for notice: the alert time is before the leave time, which is before the
\* departure
C25_Witness ==
    /\ calc.op = "calculate_alert_time"
    /\ config.walking_time_minutes > 0
    /\ config.advance_notice_minutes > 0
    /\ calc.result < calculate_leave_time(config, calc.departure_time)
    /\ calculate_leave_time(config, calc.departure_time) < calc.departure_time

\* C26: for instants in whole seconds, the delay calculate_delay returns is
\* an integer number of minutes at most half a minute away from
\* (current - original) / 60; it is positive only when current is later
\* than original and negative only when it is earlier; an exact half minute
\* goes to the even neighbour, whatever its sign; and the delay with the two
\* arguments exchanged is its negation.
C26_DelayRoundsToNearest ==
    calc.op = "calculate_delay" =>
        LET seconds == calc.departure_time - calc.original_departure_time
            delay == calc.result
        IN  /\ delay \in Int
            /\ 60 * delay - seconds <= 30
            /\ seconds - 60 * delay <= 30
            /\ delay > 0 => seconds > 0
            /\ delay < 0 => seconds < 0
            /\ seconds % 60 = 30 => delay % 2 = 0
            /\ delay = 0 - calculate_delay(calc.departure_time,
                                           calc.original_departure_time)

\* calculate_delay has returned -2 for a departure that is now a minute
\* and a half earlier than it was first predicted
C26_Witness ==
    /\ calc.op = "calculate_delay"
    /\ calc.departure_time - calc.original_departure_time = 0 - 90
    /\ calc.result = 0 - 2

\* the record the store holds for the key was made for this very triple
RecordedFor(st, k) ==
    /\ IsTracked(st, k)
    /\ Tracked(st, k)[1].route_id = k[1]
    /\ Tracked(st, k)[1].trip_id = k[2]
    /\ Tracked(st, k)[1].stop_id = k[3]

\* C27: a record is identified by its triple (route_id, trip_id, stop_id).
\* The triple of a call of record_alert or record_delay_update shares its
\* stored key with no other triple, and has_alerted or has_sent_delay_update
\* is true of a triple only when the store holds a record that was made for
\* that triple.
C27_TripleIdentifiesRecord ==
    /\ api.op \in {"record_alert", "record_delay_update"} =>
            \A k \in ApiKeys \ {api.key} :
                create_departure_key(k[1], k[2], k[3])
                    # create_departure_key(api.key[1], api.key[2], api.key[3])
    /\ \A k \in ApiKeys :
            (\/ has_alerted(state, k[1], k[2], k[3])
             \/ has_sent_delay_update(state, k[1], k[2], k[3]))
                => RecordedFor(state, k)

\* C28: from an empty store, whatever calls of record_alert,
\* record_delay_update, cleanup_old_entries and update_last_run are made, no
\* two tracked records carry the same key, every record carries a key, and
\* the two lookups read the same record: has_alerted of a triple is the
\* initial_alert_sent of the first record under its key, the record whose
\* delay_update_sent has_sent_delay_update returns.
C28_OneRecordPerKey ==
    LET tracked == state.tracked_departures
    IN  /\ \A i, j \in 1..Len(tracked) :
                get(tracked[i], "key", None) = get(tracked[j], "key", None)
                    => i = j
        /\ \A i \in 1..Len(tracked) : "key" \in DOMAIN tracked[i]
        /\ \A k \in ApiKeys :
            LET first == first_index(state,
                             create_departure_key(k[1], k[2], k[3]))
            IN  /\ has_alerted(state, k[1], k[2], k[3])
                    <=> (first # 0 /\ tracked[first].initial_alert_sent)
                /\ has_sent_delay_update(state, k[1], k[2], k[3])
                    <=> (first # 0 /\ tracked[first].delay_update_sent)
                /\ has_sent_delay_update(state, k[1], k[2], k[3])
                    => has_alerted(state, k[1], k[2], k[3])

\* two keys have been recorded and the delay update of the second, which
\* both lookups find in the second record
C28_Witness ==
    /\ api.op = "record_delay_update"
    /\ Len(state.tracked_departures) = 2
    /\ first_index(state, create_departure_key(api.key[1], api.key[2],
                                               api.key[3])) = 2
    /\ has_alerted(state, api.key[1], api.key[2], api.key[3])
    /\ has_sent_delay_update(state, api.key[1], api.key[2], api.key[3])
    /\ ~state.tracked_departures[1].delay_update_sent

\* the run's configuration with other walking and advance-notice minutes
WindowConfigs ==
    {with_fields(config, [walking_time_minutes |-> w,
                          advance_notice_minutes |-> a]) :
        w \in 0..MaxMinutes, a \in 0..MaxMinutes}

\* C29: the relevance filter drops no departure whose alert is due.  For
\* every departure a run examines and all non-negative walking and
\* advance-notice minutes, should_alert_now implies is_departure_relevant,
\* and is_departure_relevant is true exactly when the current time is not
\* after the leave time and the alert time is at most max_wait_minutes
\* ahead; and the step that examines a departure whose leave time has passed
\* queues neither an alert nor a delay update and records nothing.
C29_RelevanceKeepsDueDepartures ==
    [][Parsed =>
        /\ \A cfg \in WindowConfigs :
            /\ should_alert_now(cfg, ExaminedTime, current_time)
                    => is_departure_relevant(cfg, ExaminedTime, current_time)
            /\ is_departure_relevant(cfg, ExaminedTime, current_time)
                    <=> /\ current_time
                               <= calculate_leave_time(cfg, ExaminedTime)
                        /\ calculate_alert_time(cfg, ExaminedTime)
                               - current_time <= max_wait_minutes * 60
        /\ current_time > calculate_leave_time(config, ExaminedTime) =>
            /\ ~QueuesAlert
            /\ ~QueuesDelay
            /\ state' = state
        /\ (QueuesAlert \/ QueuesDelay) =>
            current_time <= calculate_leave_time(config, ExaminedTime)
      ]_vars

\* a departure alerted by the run before is reported a minute later than it
\* was, late enough for a delay update, and its leave time passed a second
\* ago
C29_Witness ==
    /\ Parsed
    /\ IsTracked(state, ExaminedKey)
    /\ ~DelaySent(state, ExaminedKey)
    /\ calculate_delay(
           fromisoformat(Tracked(state, ExaminedKey)[1].original_departure_time),
           ExaminedTime) >= config.delay_threshold_minutes
    /\ current_time = calculate_leave_time(config, ExaminedTime) + 1

\* C30: every key recorded as alerted in a run is delivered.  The dedup pass
\* takes an alert out of the queue only when the batch keeps an alert of the
\* same route and trip, so that every record record_alert made in the run
\* (its initial_alert_time is the run's current_time) has an alert of its
\* route and trip in the batch the send phase is handed.
C30_RecordedAlertsDelivered ==
    [][(pc = "route" /\ pc' = "send") =>
        LET queue == all_alerts_to_send
            batch == all_alerts_to_send'
            tracked == state.tracked_departures
        IN  /\ \A k \in 1..Len(queue) :
                    \E i \in 1..Len(batch) :
                        /\ batch[i].route_id = queue[k].route_id
                        /\ batch[i].trip_id = queue[k].trip_id
            /\ \A r \in 1..Len(tracked) :
                    tracked[r].initial_alert_time = isoformat(current_time) =>
                        \E i \in 1..Len(batch) :
                            /\ batch[i].route_id = tracked[r].route_id
                            /\ batch[i].trip_id = tracked[r].trip_id
      ]_vars

====
